---------------------------- MODULE Spec2Model ----------------------------
(***************************************************************************)
(* The aim trainer of src/tutorial.py: the Target entity (update, collide) *)
(* and the frame loop of main() with its end screen.                       *)
(*                                                                         *)
(* A target's radius is a Python float.  Every float this program computes *)
(* is an IEEE-754 double that is an integer multiple of 2^-55 and smaller  *)
(* than 64 in magnitude, so a double is held exactly as the integer        *)
(* hi * 2^30 + lo of such units (0 <= lo < 2^30, hi < 0 for a negative     *)
(* value), and the float operations round to 53 significant bits, ties to  *)
(* even, as the hardware does.                                             *)
(***************************************************************************)
EXTENDS Integers, Sequences, FiniteSets

\* ------------------------------------------------------------ constants

WIDTH == 1000

HEIGHT == 800

TARGET_PADDING == 30

LIVES == 3

TOP_BAR_HEIGHT == 50

MAX_SIZE == 30

\* ------------------------------------------------------- bounds of the model

\* TARGET_EVENTs are drawn only in the first SpawnFrames ticks.
SpawnFrames == 2

\* Events returned by one pygame.event.get().
MaxEvents == 2

\* Targets created in a session.
MaxSpawned == 3

\* Mouse-button-down events in a session.
MaxClicks == 2

\* Targets of a session that draws its spawn points at the corners.
MaxCorners == 2

\* ------------------------------------------------------ double arithmetic

Limb == 2^30

Dbl(h, l) == [hi |-> h, lo |-> l]

\* Carries lo into hi; \div floors and % is never negative.
DNorm(h, l) == [hi |-> h + (l \div Limb), lo |-> l % Limb]

DAddExact(a, b) == DNorm(a.hi + b.hi, a.lo + b.lo)

DSubExact(a, b) == DNorm(a.hi - b.hi, a.lo - b.lo)

DNeg(a) == DNorm(-a.hi, -a.lo)

\* a <= b on doubles.
DLe(a, b) == a.hi < b.hi \/ (a.hi = b.hi /\ a.lo <= b.lo)

DZero == Dbl(0, 0)

\* An int as a double (exact below 2^53).
FromInt(n) == Dbl(n * 2^25, 0)

\* Bits of a magnitude above the 53 a double keeps (h is its hi limb).
ExcessBits(h) ==
    IF h < 2^27
    THEN IF h < 2^25 THEN (IF h < 2^23 THEN 0 ELSE IF h < 2^24 THEN 1 ELSE 2)
                     ELSE (IF h < 2^26 THEN 3 ELSE 4)
    ELSE IF h < 2^29 THEN (IF h < 2^28 THEN 5 ELSE 6)
                     ELSE (IF h < 2^30 THEN 7 ELSE 8)

\* Round a magnitude m >= 0 to 53 significant bits, to nearest, ties to even;
\* sticky says the exact value lies strictly above m (by less than one unit).
Round53(m, sticky) ==
    LET d    == ExcessBits(m.hi)
        q    == 2^d
        low  == m.lo % q
        base == m.lo - low
        half == q \div 2
        up   == \/ low > half
                \/ low = half /\ d > 0 /\ (sticky \/ (base \div q) % 2 = 1)
    IN  DNorm(m.hi, base + (IF up THEN q ELSE 0))

\* The double nearest to the exact value v.
FRound(v) == IF v.hi < 0 THEN DNeg(Round53(DNeg(v), FALSE)) ELSE Round53(v, FALSE)

\* Python's a + b and a - b on floats.
FAdd(a, b) == FRound(DAddExact(a, b))

FSub(a, b) == FRound(DSubExact(a, b))

\* 0.2 as a double: 0x1.999999999999ap-3 = 7205759403792794 * 2^-55.
GROWTH_RATE == Dbl(6710886, 429496730)

\* ------------------------------------------------- math.sqrt of an int

\* Naturals below 2^90 as three limbs, least significant first, for the
\* square root (its remainder outgrows two limbs).
BAdd(a, b) ==
    LET s1 == a[1] + b[1]
        s2 == a[2] + b[2] + (s1 \div Limb)
        s3 == a[3] + b[3] + (s2 \div Limb)
    IN  <<s1 % Limb, s2 % Limb, s3>>

\* a - b for a >= b.
BSub(a, b) ==
    LET s1 == a[1] - b[1]
        s2 == a[2] - b[2] + (s1 \div Limb)
        s3 == a[3] - b[3] + (s2 \div Limb)
    IN  <<s1 % Limb, s2 % Limb, s3>>

BGe(a, b) ==
    \/ a[3] > b[3]
    \/ a[3] = b[3] /\ a[2] > b[2]
    \/ a[3] = b[3] /\ a[2] = b[2] /\ a[1] >= b[1]

BZero == <<0, 0, 0>>

BOne == <<1, 0, 0>>

BDouble(a) == BAdd(a, a)

\* floor(sqrt(n)) of a small int.
IntSqrt(n) == CHOOSE r \in 0..n : r * r <= n /\ n < (r + 1) * (r + 1)

\* k more binary digits of a square root whose operand continues with zeros:
\* root so far and rem = operand so far - root^2; a digit brings down 00.
RECURSIVE SqrtDigits(_, _, _)
SqrtDigits(root, rem, k) ==
    IF k = 0 THEN [root |-> root, rem |-> rem]
    ELSE LET rem4  == BDouble(BDouble(rem))
             root2 == BDouble(root)
             trial == BAdd(BDouble(root2), BOne)
         IN  IF BGe(rem4, trial)
             THEN SqrtDigits(BAdd(root2, BOne), BSub(rem4, trial), k - 1)
             ELSE SqrtDigits(root2, rem4, k - 1)

\* floor(sqrt(n) * 2^55) and whether sqrt(n) * 2^55 is that integer exactly.
SqrtUnits(n) ==
    LET r  == IntSqrt(n)
        st == SqrtDigits(<<r, 0, 0>>, <<n - r * r, 0, 0>>, 55)
    IN  [q     |-> Dbl(st.root[3] * Limb + st.root[2], st.root[1]),
         exact |-> st.rem = BZero]

\* math.sqrt(n): the double nearest to the square root of n, for n below
\* 64 * 64 (from there on the root is no double below 64).
FSqrt(n) ==
    LET su == SqrtUnits(n)
    IN  IF su.exact THEN su.q ELSE Round53(su.q, TRUE)

\* math.sqrt over the squared distances whose root is below 64.
SqrtTable == [n \in 0..(64 * 64 - 1) |-> FSqrt(n)]

\* ---------------------------------------------------------------- Target

\* Target.__init__: the object created for the id-th TARGET_EVENT.
Target(id, px, py) ==
    [id |-> id, x |-> px, y |-> py, size |-> FromInt(0), growth |-> TRUE]

\* An update that turns only once the radius is at MAX_SIZE or above: what
\* C11, as it holds, rules out.
updateLateReverse(t) ==
    LET g == IF DLe(FromInt(MAX_SIZE), t.size) THEN FALSE ELSE t.growth
    IN  [t EXCEPT !.growth = g,
                  !.size = IF g THEN FAdd(@, GROWTH_RATE)
                                ELSE FSub(@, GROWTH_RATE)]

\* An update that never stops growing: what C3 rules out.
updateNoReverse(t) == [t EXCEPT !.size = FAdd(@, GROWTH_RATE)]

\* An update that sets growth afresh on every call: what C6 rules out.
updateFlipBack(t) ==
    LET g == ~DLe(FromInt(MAX_SIZE), FAdd(t.size, GROWTH_RATE))
    IN  [t EXCEPT !.growth = g,
                  !.size = IF g THEN FAdd(@, GROWTH_RATE)
                                ELSE FSub(@, GROWTH_RATE)]

\* Target.update.
update(t) ==
    LET g == IF DLe(FromInt(MAX_SIZE), FAdd(t.size, GROWTH_RATE))
             THEN FALSE ELSE t.growth
    IN  [t EXCEPT !.growth = g,
                  !.size = IF g THEN FAdd(@, GROWTH_RATE)
                                ELSE FSub(@, GROWTH_RATE)]

\* A collide with < for <=: what C5 rules out.
collideStrict(t, px, py) ==
    LET n == (t.x - px) * (t.x - px) + (t.y - py) * (t.y - py)
    IN  IF n < 64 * 64
        THEN DLe(SqrtTable[n], t.size) /\ SqrtTable[n] # t.size
        ELSE FALSE

\* Target.collide.  A root of 64 or more exceeds every double held here.
collide(t, px, py) ==
    LET n == (t.x - px) * (t.x - px) + (t.y - py) * (t.y - py)
    IN  IF n < 64 * 64 THEN DLe(SqrtTable[n], t.size) ELSE FALSE

\* ------------------------------------------------------------- the state

VARIABLES
    targets,          \* main: the list of live Target objects
    targets_pressed,  \* main: hits
    clicks,           \* main: mouse-button-down events seen
    misses,           \* main: targets that shrank away
    run,              \* main: the loop flag
    pc,               \* "main" (RUNNING), "end_screen" (ENDED) or "exit"
    error,            \* the uncaught exception that ended the process, or "none"
    accuracy,         \* end_screen: <<a>> once the accuracy is computed, a in
                      \* tenths of a percent; <<>> before
    spawned,          \* Target objects created so far (the next object's id)
    frames,           \* ticks so far, counted up to SpawnFrames
    mouseDowns,       \* MOUSEBUTTONDOWN events the last tick consumed
    timerFires,       \* TARGET_EVENT events the last tick consumed
    tgt,              \* one Target followed from creation to destruction
    fate,             \* of tgt: "live", "miss", "hit" or "ValueError"
    probe             \* <<[x, y, hit]>>: the last collide() call on tgt in
                      \* its present state; <<>> when there was none

vars == <<targets, targets_pressed, clicks, misses, run, pc, error, accuracy,
          spawned, frames, mouseDowns, timerFires, tgt, fate, probe>>

loopVars == <<targets, targets_pressed, clicks, misses, run, pc, error,
              accuracy, spawned, frames, mouseDowns, timerFires>>

targetVars == <<tgt, fate, probe>>

\* ------------------------------------------------------ inputs of the model

EventTypes == {"QUIT", "TARGET_EVENT", "MOUSEBUTTONDOWN", "KEYDOWN"}

\* What one pygame.event.get() can return.
Batches == UNION {[1..k -> EventTypes] : k \in 0..MaxEvents}

\* random.randint(TARGET_PADDING, WIDTH - TARGET_PADDING) and
\* random.randint(TARGET_PADDING + TOP_BAR_HEIGHT, HEIGHT - TARGET_PADDING),
\* sampled at the low end of each range.
SpawnXs == {TARGET_PADDING}

SpawnYs == {TARGET_PADDING + TOP_BAR_HEIGHT}

SpawnPoints == SpawnXs \X SpawnYs

\* The same draws sampled at both ends of each range, with a variant drawn
\* from the whole width of the window: what C16 rules out.
SpawnXUnpadded == {0, WIDTH}

SpawnXEnds == {TARGET_PADDING, WIDTH - TARGET_PADDING}

SpawnYEnds == {TARGET_PADDING + TOP_BAR_HEIGHT, HEIGHT - TARGET_PADDING}

SpawnEnds == SpawnXEnds \X SpawnYEnds

\* pygame.mouse.get_pos(): on a spawn point, and 29 pixels (20, 21) from it.
MousePoints ==
    {<<TARGET_PADDING, TARGET_PADDING + TOP_BAR_HEIGHT>>,
     <<TARGET_PADDING + 20, TARGET_PADDING + TOP_BAR_HEIGHT + 21>>}

\* ------------------------------------------------------------ the frame loop

\* The events the for loop reads: up to and including the first QUIT.
RECURSIVE Consumed(_)
Consumed(ev) ==
    IF ev = <<>> THEN <<>>
    ELSE IF Head(ev) = "QUIT" THEN <<"QUIT">>
    ELSE <<Head(ev)>> \o Consumed(Tail(ev))

Count(ev, type) == Cardinality({i \in 1..Len(ev) : ev[i] = type})

\* The body of the event loop with every MOUSEBUTTONDOWN after the first of
\* a tick dropped: what C9 rules out.
OnEventDebounced(es, e, pt) ==
    IF e = "TARGET_EVENT"
    THEN [es EXCEPT !.targets = Append(@, Target(es.spawned, pt[1], pt[2])),
                    !.spawned = @ + 1]
    ELSE IF e = "MOUSEBUTTONDOWN" /\ ~es.click
    THEN [es EXCEPT !.click = TRUE, !.clicks = @ + 1]
    ELSE es

\* The body of "for event in pygame.event.get()" on an event other than
\* QUIT; es holds the locals it assigns, pt the point random.randint draws.
OnEvent(es, e, pt) ==
    IF e = "TARGET_EVENT"
    THEN [es EXCEPT !.targets = Append(@, Target(es.spawned, pt[1], pt[2])),
                    !.spawned = @ + 1]
    ELSE IF e = "MOUSEBUTTONDOWN"
    THEN [es EXCEPT !.click = TRUE, !.clicks = @ + 1]
    ELSE es

\* The event loop of a tick: QUIT clears run and breaks; rnd holds the points
\* random.randint draws, one per TARGET_EVENT.
RECURSIVE EventLoop(_, _, _)
EventLoop(es, ev, rnd) ==
    IF ev = <<>> THEN es
    ELSE IF Head(ev) = "QUIT" THEN [es EXCEPT !.run = FALSE]
    ELSE IF Head(ev) = "TARGET_EVENT"
    THEN EventLoop(OnEvent(es, Head(ev), Head(rnd)), Tail(ev), Tail(rnd))
    ELSE EventLoop(OnEvent(es, Head(ev), <<0, 0>>), Tail(ev), rnd)

Holds(list, id) == \E j \in 1..Len(list) : list[j].id = id

\* A remove that empties the list: what C12 rules out.
RemoveAll(list, id) == <<>>

\* A remove that leaves the list as it was: what C2's bound rules out.
RemoveNothing(list, id) == list

\* list.remove(target): objects compare by identity.
Remove(list, id) == SelectSeq(list, LAMBDA t : t.id # id)

\* An iteration that removes a shrunk target without counting the miss: what
\* C14 rules out.
IterationUncounted(ps, i, click, mouse_pos) ==
    CHOOSE r \in
        {LET updated == [ps EXCEPT !.targets[i] = target]
             missed  == IF DLe(target.size, FromInt(0))
                        THEN [updated EXCEPT !.targets = Remove(@, target.id)]
                        ELSE updated
         IN  IF click /\ collide(target, mouse_pos[1], mouse_pos[2])
             THEN [missed EXCEPT !.targets = Remove(@, target.id),
                                 !.targets_pressed = @ + 1]
             ELSE missed :
         target \in {update(ps.targets[i])}} : TRUE

\* One iteration of "for target in targets" at list index i; target is the
\* object at i after its update(), taken as a value.
Iteration(ps, i, click, mouse_pos) ==
    CHOOSE r \in
        {LET updated == [ps EXCEPT !.targets[i] = target]
             missed  == IF DLe(target.size, FromInt(0))
                        THEN [updated EXCEPT !.targets = Remove(@, target.id),
                                             !.misses = @ + 1]
                        ELSE updated
         IN  IF click /\ collide(target, mouse_pos[1], mouse_pos[2])
             THEN IF Holds(missed.targets, target.id)
                  THEN [missed EXCEPT !.targets = Remove(@, target.id),
                                      !.targets_pressed = @ + 1]
                  ELSE [missed EXCEPT !.error = "ValueError"]
             ELSE missed :
         target \in {update(ps.targets[i])}} : TRUE

\* The list iterator: index i moves on by one whatever the body removed.  The
\* pass goes on from the value next that the iteration at i leaves.
RECURSIVE TargetPass(_, _, _, _)
TargetPass(ps, i, click, mouse_pos) ==
    IF i > Len(ps.targets) \/ ps.error # "none" THEN ps
    ELSE CHOOSE r \in {TargetPass(next, i + 1, click, mouse_pos) :
                          next \in {Iteration(ps, i, click, mouse_pos)}} : TRUE

\* The test with > for >=: what C1 rules out.
GameOverLate(m) == m > LIVES

\* "if misses >= LIVES" at the end of a tick.
GameOver(m) == m >= LIVES

\* round(x, 1) of x = 1000 * num / den tenths: to nearest, ties to even.
RoundTenths(num, den) ==
    LET q == (1000 * num) \div den
        r == (1000 * num) % den
    IN  IF 2 * r > den \/ (2 * r = den /\ q % 2 = 1) THEN q + 1 ELSE q

\* The for loop over the events of a tick, from the locals at its start; rnd
\* holds the points random.randint draws, one per TARGET_EVENT read; downs
\* and fires tally the MOUSEBUTTONDOWN and TARGET_EVENT events read.
Events(ev, rnd) ==
    [es    |-> EventLoop([targets |-> targets, click |-> FALSE,
                          clicks |-> clicks, run |-> TRUE,
                          spawned |-> spawned], ev, rnd),
     downs |-> Count(Consumed(ev), "MOUSEBUTTONDOWN"),
     fires |-> Count(Consumed(ev), "TARGET_EVENT")]

\* The batches the bounds allow: TARGET_EVENTs in the first spawnFrames ticks
\* and up to maxSpawned in all, MOUSEBUTTONDOWNs up to maxClicks in all.
Allowed(ev, spawnFrames, maxSpawned, maxClicks) ==
    /\ Count(Consumed(ev), "TARGET_EVENT") > 0 => frames < spawnFrames
    /\ spawned + Count(Consumed(ev), "TARGET_EVENT") <= maxSpawned
    /\ clicks + Count(Consumed(ev), "MOUSEBUTTONDOWN") <= maxClicks

\* What the event loop of this tick can leave behind, with the targets drawn
\* at points.
Inputs(spawnFrames, maxSpawned, maxClicks, points) ==
    UNION {{Events(ev, rnd) :
               rnd \in [1..Count(Consumed(ev), "TARGET_EVENT") -> points]} :
           ev \in {b \in Batches :
                     Allowed(b, spawnFrames, maxSpawned, maxClicks)}}

\* One iteration of "while run" in main after its event loop left in, the
\* call of end_screen (up to its wait loop) included.
Tick(in, mouse_pos, spawnFrames) ==
    LET es == in.es
    IN  \E ps \in {TargetPass([targets |-> es.targets, misses |-> misses,
                               targets_pressed |-> targets_pressed,
                               error |-> "none"], 1, es.click, mouse_pos)} :
        /\ targets' = ps.targets
        /\ targets_pressed' = ps.targets_pressed
        /\ misses' = ps.misses
        /\ clicks' = es.clicks
        /\ spawned' = es.spawned
        /\ run' = es.run
        /\ mouseDowns' = in.downs
        /\ timerFires' = in.fires
        /\ frames' = IF frames < spawnFrames THEN frames + 1 ELSE frames
        /\ IF ps.error # "none"
           THEN pc' = "main" /\ error' = ps.error /\ accuracy' = accuracy
           ELSE IF GameOver(ps.misses)
           THEN /\ pc' = "end_screen"
                /\ IF es.clicks = 0
                   THEN error' = "ZeroDivisionError" /\ accuracy' = accuracy
                   ELSE /\ error' = "none"
                        /\ accuracy' = <<RoundTenths(ps.targets_pressed,
                                                    es.clicks)>>
           ELSE /\ pc' = (IF es.run THEN "main" ELSE "exit")
                /\ error' = "none"
                /\ accuracy' = accuracy

\* A tick on every batch of events, random draw and mouse position (read
\* by the loop only after a click).
Loop(spawnFrames, maxSpawned, maxClicks, points) ==
    /\ pc = "main" /\ error = "none"
    /\ \E in \in Inputs(spawnFrames, maxSpawned, maxClicks, points) :
       \E mouse_pos \in (IF in.es.click THEN MousePoints
                         ELSE {CHOOSE m \in MousePoints : TRUE}) :
          Tick(in, mouse_pos, spawnFrames)
    /\ UNCHANGED targetVars

\* A summary screen that starts a new game on a key press: what C7 rules out.
EndScreenRestart ==
    /\ pc = "end_screen" /\ error = "none"
    /\ \E ev \in Batches :
          /\ pc' = IF \E i \in 1..Len(ev) : ev[i] = "QUIT" THEN "exit"
                   ELSE IF \E i \in 1..Len(ev) : ev[i] = "KEYDOWN" THEN "main"
                   ELSE pc
          /\ misses' = IF pc' = "main" THEN 0 ELSE misses
    /\ UNCHANGED <<targets, targets_pressed, clicks, run, error,
                   accuracy, spawned, frames, mouseDowns, timerFires>>
    /\ UNCHANGED targetVars

\* The wait loop of end_screen: quit() on the first QUIT or KEYDOWN.
EndScreenEvents ==
    /\ pc = "end_screen" /\ error = "none"
    /\ \E ev \in Batches :
          pc' = IF \E i \in 1..Len(ev) : ev[i] \in {"QUIT", "KEYDOWN"}
                THEN "exit" ELSE pc
    /\ UNCHANGED <<targets, targets_pressed, clicks, misses, run, error,
                   accuracy, spawned, frames, mouseDowns, timerFires>>
    /\ UNCHANGED targetVars

TargetInit ==
    /\ tgt = Target(0, TARGET_PADDING, TARGET_PADDING + TOP_BAR_HEIGHT)
    /\ fate = "live"
    /\ probe = <<>>

LoopInit ==
    /\ targets = <<>>
    /\ targets_pressed = 0
    /\ clicks = 0
    /\ misses = 0
    /\ run = TRUE
    /\ pc = "main"
    /\ error = "none"
    /\ accuracy = <<>>
    /\ spawned = 0
    /\ frames = 0
    /\ mouseDowns = 0
    /\ timerFires = 0

Init == LoopInit /\ TargetInit

Next == Loop(SpawnFrames, MaxSpawned, MaxClicks, SpawnPoints) \/ EndScreenEvents

Spec == Init /\ [][Next]_vars

\* A session of at most one click in which the loop keeps ticking: "while
\* run" goes round, at clock.tick(60), for as long as the process is in main
\* and no QUIT is read.
LiveNext == Loop(SpawnFrames, MaxSpawned, 1, SpawnPoints) \/ EndScreenEvents

LiveSpec ==
    /\ Init /\ [][LiveNext]_vars
    /\ WF_vars(Loop(SpawnFrames, MaxSpawned, 1, SpawnPoints) /\ run')

\* A session of at most one click in which the timer outruns the frames: one
\* more spawning tick and two more targets.
NextBurst == Loop(SpawnFrames + 1, MaxSpawned + 2, 1, SpawnPoints) \/ EndScreenEvents

SpecBurst == Init /\ [][NextBurst]_vars

\* A session without clicks of up to MaxCorners targets, drawn at the corners of
\* the rectangle random.randint draws from.
NextCorners == Loop(SpawnFrames, MaxCorners, 0, SpawnEnds)

SpecCorners == Init /\ [][NextCorners]_vars

\* ------------------------------------------------ one target on its own

\* Points for collide(): offsets from the centre with squared distance
\* 0, 1, 2, 25, 25, 841, 882, 900 and 4900.
ProbeOffsets ==
    {<<0, 0>>, <<1, 0>>, <<1, 1>>, <<3, 4>>, <<-3, -4>>, <<20, 21>>,
     <<21, 21>>, <<0, 30>>, <<70, 0>>}

ProbePoints == {<<tgt.x + o[1], tgt.y + o[2]>> : o \in ProbeOffsets}

\* The body of "for target in targets" run on tgt as the only target.
TargetIteration(click, mouse_pos) ==
    LET ps == Iteration([targets |-> <<tgt>>, misses |-> 0,
                         targets_pressed |-> 0, error |-> "none"],
                        1, click, mouse_pos)
        target == update(tgt)
    IN  /\ fate = "live"
        /\ tgt' = target
        /\ fate' = IF ps.error # "none" THEN ps.error
                   ELSE IF ps.misses > 0 THEN "miss"
                   ELSE IF ps.targets_pressed > 0 THEN "hit"
                   ELSE "live"
        /\ probe' = IF click
                    THEN <<[x |-> mouse_pos[1], y |-> mouse_pos[2],
                            hit |-> collide(target, mouse_pos[1], mouse_pos[2])]>>
                    ELSE <<>>

TargetStep ==
    /\ \E click \in BOOLEAN : \E mouse_pos \in ProbePoints :
          TargetIteration(click, mouse_pos)
    /\ UNCHANGED loopVars

\* A call of collide() on tgt as it stands.
TargetCollide ==
    /\ \E p \in ProbePoints :
          probe' = <<[x |-> p[1], y |-> p[2], hit |-> collide(tgt, p[1], p[2])]>>
    /\ UNCHANGED <<tgt, fate>>
    /\ UNCHANGED loopVars

TargetNext == TargetStep \/ TargetCollide

TargetSpec == Init /\ [][TargetNext]_vars

\* ------------------------------------------------------------ properties

\* C1: the loop is RUNNING only while misses is below LIVES, and a tick leaves
\* RUNNING for ENDED exactly when it takes misses to LIVES or above: ENDED is
\* entered in that very tick and never with misses below LIVES.
C1_EndedWhenLivesLost ==
    /\ [](pc = "main" => misses < LIVES)
    /\ [][pc = "main" => ((pc' = "end_screen") <=> (misses' >= LIVES))]_vars

\* The summary screen is up after a tick took misses from below LIVES to LIVES.
C1_Witness == pc = "end_screen" /\ error = "none" /\ misses = LIVES

\* C2 as stated: misses never exceeds LIVES and equals LIVES when ENDED is
\* entered.
C2_NeverExceedsLives ==
    /\ misses <= LIVES
    /\ pc = "end_screen" => misses = LIVES

\* C2 as it holds: misses is below LIVES while RUNNING and at least LIVES in
\* ENDED, where it is bounded by the number of targets spawned, not by LIVES.
C2_MissesBounded ==
    /\ misses <= spawned
    /\ pc = "main" => misses <= LIVES - 1
    /\ pc = "end_screen" => misses \in LIVES..spawned

\* ENDED entered with more misses than LIVES: several targets expired in the
\* last tick.
C2_Witness == pc = "end_screen" /\ misses > LIVES

\* Radius measured in multiples of GROWTH_RATE: k * GROWTH_RATE, exactly, the
\* low limb of GROWTH_RATE taken in two halves of 15 bits.
Multiple(k) ==
    LET l1 == GROWTH_RATE.lo \div 2^15
        l0 == GROWTH_RATE.lo % 2^15
    IN  DNorm(k * GROWTH_RATE.hi + (k * l1) \div 2^15,
              ((k * l1) % 2^15) * 2^15 + k * l0)

Multiples == [k \in 0..(6 * MAX_SIZE) |-> Multiple(k)]

DAbs(v) == IF v.hi < 0 THEN DNeg(v) ELSE v

\* v measures k multiples of GROWTH_RATE: k * GROWTH_RATE is the nearest.
Near(v, k) ==
    LET d == DAbs(DSubExact(v, Multiples[k]))
    IN  DLe(DAddExact(d, d), GROWTH_RATE)

\* MAX_SIZE in multiples of GROWTH_RATE.
MaxSteps == CHOOSE k \in 0..(6 * MAX_SIZE) : Near(FromInt(MAX_SIZE), k)

\* C3: from creation to destruction the radius of a target, measured in
\* multiples of GROWTH_RATE, is between 0 and MAX_SIZE after every update.
C3_RadiusInRange == \E k \in 0..MaxSteps : Near(tgt.size, k)

\* The target has shrunk away and was destroyed: its last update left the
\* radius at 0 multiples.
C3_Witness == fate = "miss" /\ Near(tgt.size, 0)

\* C4 as stated: when ENDED is entered with clicks >= hits, the accuracy is
\* defined and between 0 and 100 percent.
C4_AccuracyDefined ==
    pc = "end_screen" /\ clicks >= targets_pressed
        => Len(accuracy) = 1 /\ accuracy[1] \in 0..1000

\* The exact comparison: the distance from (px, py) to the centre of t is at
\* most the radius of t.  With root q = floor(sqrt(n) * 2^55), sqrt(n) <= size
\* iff q <= size for an exact root and q + 1 <= size otherwise; a size is
\* below 64.
Within(t, px, py) ==
    LET n  == (t.x - px) * (t.x - px) + (t.y - py) * (t.y - py)
        su == SqrtUnits(n)
    IN  /\ n < 64 * 64
        /\ DLe(IF su.exact THEN su.q ELSE DAddExact(su.q, Dbl(0, 1)), t.size)

\* C5: collide returns true exactly when the Euclidean distance from the
\* point to the centre is at most the radius.
C5_CollideIffWithin ==
    probe # <<>> => (probe[1].hit <=> Within(tgt, probe[1].x, probe[1].y))

\* A point at distance 1 from a target of radius exactly 1 collides.
C5_Witness ==
    /\ tgt.size = FromInt(1)
    /\ probe = <<[x |-> tgt.x + 1, y |-> tgt.y, hit |-> TRUE]>>

\* radius + GROWTH_RATE, summed exactly, reaches or passes MAX_SIZE.
WouldReachMax(t) == DLe(FromInt(MAX_SIZE), DAddExact(t.size, GROWTH_RATE))

\* C6: growth starts true; an update sets it false when radius + GROWTH_RATE
\* reaches or passes MAX_SIZE and never sets it true; a target that lived
\* until it shrank away has had it set false.
C6_GrowthFlipsOnce ==
    /\ tgt.growth
    /\ [][tgt' # tgt => tgt'.growth = (tgt.growth /\ ~WouldReachMax(tgt))]_vars
    /\ [](fate = "miss" => ~tgt.growth)

\* A live target past its turning point.
C6_Witness == fate = "live" /\ ~tgt.growth

\* A step taken in ENDED or after the exit.
EndedStep ==
    pc \in {"end_screen", "exit"} =>
        /\ pc' \in {"end_screen", "exit"}
        /\ pc = "exit" => pc' = "exit"
        /\ UNCHANGED <<targets, targets_pressed, clicks, misses, spawned>>

\* C7: ENDED is terminal: from ENDED the loop never returns to RUNNING, the
\* targets and the counters stay as they are, and the one step left is the exit.
C7_EndedIsTerminal == [][EndedStep]_vars

\* The process left the summary screen on a QUIT or KEYDOWN.
C7_Witness == pc = "exit" /\ misses >= LIVES

\* C8 as stated: no tick ends in an error.
C8_NoError == error = "none"

\* What a step does to the counters.
CountersStep ==
    /\ targets_pressed' >= targets_pressed
    /\ misses' >= misses
    /\ clicks' = clicks + (IF pc = "main" THEN mouseDowns' ELSE 0)

\* C9: the three counters start at 0 and no step lowers them; a tick adds to
\* clicks the number of MOUSEBUTTONDOWN events it consumed.
C9_CountersMonotone ==
    /\ targets_pressed = 0 /\ clicks = 0 /\ misses = 0
    /\ [][CountersStep]_vars

\* A tick consumed two MOUSEBUTTONDOWN events and no target has been hit.
C9_Witness == mouseDowns = 2 /\ clicks = 2 /\ targets_pressed = 0

\* The i-th target left by a tick is the update of what it was before.
UpdatedOnce(i) ==
    LET t == targets'[i]
    IN  IF Holds(targets, t.id)
        THEN \E j \in 1..Len(targets) :
                targets[j].id = t.id /\ t = update(targets[j])
        ELSE t = update(Target(t.id, t.x, t.y))

\* C10 as stated: a tick applies update() once to every target in the list
\* when the pass begins: a target left in the list is the update of what it
\* was before the tick, or of a new Target when the tick spawned it.
C10_AllUpdated == [][pc = "main" => \A i \in 1..Len(targets') : UpdatedOnce(i)]_vars

\* Half a unit in the last place of a double in [16, 32): 2^-49.  The sum or
\* difference of a radius and GROWTH_RATE is off by no more after rounding.
RoundingSlack == Dbl(0, 2^6)

\* The radius of tgt moves by GROWTH_RATE, up or down, to the nearest double.
Advanced(up) ==
    LET d == IF up THEN DSubExact(tgt'.size, tgt.size)
                   ELSE DSubExact(tgt.size, tgt'.size)
    IN  DLe(DAbs(DSubExact(d, GROWTH_RATE)), RoundingSlack)

\* An update of tgt: up by GROWTH_RATE while growth stays true, down by
\* GROWTH_RATE from the update that clears growth on.
AdvanceStep == tgt' # tgt => Advanced(tgt'.growth) /\ (~tgt.growth => ~tgt'.growth)

\* C11 as stated: update moves the radius up by GROWTH_RATE while the target
\* grows and down by GROWTH_RATE once it has turned, and it turns only once
\* the radius has reached MAX_SIZE.
C11_ReversesAtMaxSize ==
    [][AdvanceStep /\ (tgt.growth /\ ~tgt'.growth => DLe(FromInt(MAX_SIZE), tgt.size))]_vars

\* C11 as it holds: the same steps, but the target turns at the first update
\* that finds radius + GROWTH_RATE at MAX_SIZE or above, and the radius
\* itself stays below MAX_SIZE.
C11_ReversesBeforeMaxSize ==
    /\ [](~DLe(FromInt(MAX_SIZE), tgt.size))
    /\ [][AdvanceStep /\ (tgt' # tgt /\ tgt.growth
                            => (tgt'.growth <=> ~WouldReachMax(tgt)))]_vars

\* The target has just turned: one step down from its highest radius.
C11_Witness == ~tgt.growth /\ Near(tgt.size, MaxSteps - 1)

\* C12: after every tick the targets spawned so far are those in the list
\* plus the hits plus the misses: a target that left the list was counted once.
C12_TargetsConserved == spawned = Len(targets) + targets_pressed + misses

\* One target hit, one missed and one still in the list.
C12_Witness == Len(targets) = 1 /\ targets_pressed = 1 /\ misses = 1

\* C13 as stated: the hits never exceed the clicks.
C13_HitsAtMostClicks == targets_pressed <= clicks

Untouched(i) ==
    LET t == targets'[i]
    IN  IF Holds(targets, t.id)
        THEN \E j \in 1..Len(targets) : targets[j] = t
        ELSE t = Target(t.id, t.x, t.y)

\* A tick that read QUIT leaves the targets, the hits and the misses as they
\* were and ends the process without the summary screen.
QuitStep ==
    pc = "main" /\ ~run' =>
        /\ pc' = "exit"
        /\ misses' = misses /\ targets_pressed' = targets_pressed
        /\ Len(targets') = Len(targets) + (spawned' - spawned)
        /\ \A i \in 1..Len(targets') : Untouched(i)

\* C15 as stated: after a QUIT is read in a tick no target is updated,
\* evicted or scored and ENDED is not entered.
C15_QuitLeavesState == [][QuitStep]_vars

\* v <= n for a radius v (below 64 in magnitude) and a distance n in pixels.
LeInt(v, n) == n >= 64 \/ DLe(v, FromInt(n))

\* The centre of t is in the padded rectangle, its radius is below
\* TARGET_PADDING, and its disc reaches neither an edge of the window nor the
\* top bar.
DiscInside(t) ==
    /\ t.x \in TARGET_PADDING..(WIDTH - TARGET_PADDING)
    /\ t.y \in (TARGET_PADDING + TOP_BAR_HEIGHT)..(HEIGHT - TARGET_PADDING)
    /\ ~DLe(FromInt(TARGET_PADDING), t.size)
    /\ LeInt(t.size, t.x) /\ LeInt(t.size, WIDTH - t.x)
    /\ LeInt(t.size, t.y - TOP_BAR_HEIGHT) /\ LeInt(t.size, HEIGHT - t.y)

\* The i-th target left by a tick, when the tick made it, was made with
\* radius 0 and growing, and the pass of the tick updated it at most once.
SpawnedFresh(i) ==
    LET t == targets'[i]
        fresh == Target(t.id, t.x, t.y)
    IN  ~Holds(targets, t.id) =>
            /\ fresh.size = DZero /\ fresh.growth
            /\ t = fresh \/ t = update(fresh)

\* A tick makes one target for each TARGET_EVENT it reads.
SpawnStep ==
    pc = "main" =>
        /\ spawned' = spawned + timerFires'
        /\ \A i \in 1..Len(targets') : SpawnedFresh(i)

\* C16: each spawn-timer event adds exactly one target, made with radius 0
\* and growing, with x in [TARGET_PADDING, WIDTH - TARGET_PADDING] and y in
\* [TARGET_PADDING + TOP_BAR_HEIGHT, HEIGHT - TARGET_PADDING]; the radius
\* stays below TARGET_PADDING, so every live disc lies inside the window and
\* below the top bar.
C16_SpawnedInsideWindow ==
    /\ [](\A i \in 1..Len(targets) : DiscInside(targets[i]))
    /\ [][SpawnStep]_vars

\* Two targets drawn at opposite corners of the rectangle are live, the one
\* at the bottom right at its largest radius.
C16_Witness ==
    /\ Len(targets) = 2
    /\ targets[1].x = WIDTH - TARGET_PADDING
    /\ targets[1].y = HEIGHT - TARGET_PADDING
    /\ targets[2].x = TARGET_PADDING
    /\ targets[2].y = TARGET_PADDING + TOP_BAR_HEIGHT
    /\ Near(targets[1].size, MaxSteps)

=============================================================================
